---- MODULE Spec2Model ----
(***************************************************************************)
(* Model of dawid.py: the conversation engine DawidAI.process_input with   *)
(* its helpers _learn and _get_response, the persistence call              *)
(* save_knowledge, and the expression evaluator MathProcessor.             *)
(*                                                                         *)
(* Text is a sequence of symbols.  A symbol is one character ("a", "?",    *)
(* " ", "2", "+") or one of the words the program compares against         *)
(* ("policz", "skip", ...) kept as an indivisible run of letters; the      *)
(* single letters of the alphabet cannot spell any of those words.         *)
(***************************************************************************)
EXTENDS Integers, Sequences, FiniteSets, TLC

\* Number of turns (calls of process_input) a checked session may take.
MaxTurns == 4

----------------------------------------------------------------------------
(* Alphabet *)

LowerLetters == {"a", "b"}
UpperLetters == {"A", "B"}
CueWords     == {"policz", "oblicz"}
LowerWords   == CueWords \cup {"skip", "koniec"}
UpperWords   == {"POLICZ", "OBLICZ", "SKIP", "KONIEC"}
Digits       == {"0", "1", "2", "3", "4", "5", "6", "7", "8", "9"}
OperatorSymbols == {"+", "-", "*", "/", "^", "(", ")"}
Whitespace   == {" "}

\* \w of the regular expressions: letters, digits, underscore.
WordChars == LowerLetters \cup UpperLetters \cup LowerWords \cup UpperWords
             \cup Digits \cup {"_"}

\* [\d\+\-\*/\(\)\^\s] of the calculation pattern.
MathChars == Digits \cup OperatorSymbols \cup Whitespace

MinOf(S) == CHOOSE x \in S : \A y \in S : x <= y
MaxOf(S) == CHOOSE x \in S : \A y \in S : y <= x

----------------------------------------------------------------------------
(* str.lower, str.strip and the normalisation of questions *)

LowerChar(c) ==
    CASE c = "A" -> "a"
      [] c = "B" -> "b"
      [] c = "POLICZ" -> "policz"
      [] c = "OBLICZ" -> "oblicz"
      [] c = "SKIP" -> "skip"
      [] c = "KONIEC" -> "koniec"
      [] OTHER -> c

Lower(s) == [i \in 1..Len(s) |-> LowerChar(s[i])]

Strip(s) ==
    LET keep == {i \in 1..Len(s) : s[i] \notin Whitespace}
    IN  IF keep = {} THEN << >> ELSE SubSeq(s, MinOf(keep), MaxOf(keep))

\* re.sub(r'[^\w\s]', '', s): drop what is neither a word character nor space.
RemoveNonWord(s) == SelectSeq(s, LAMBDA c : c \in WordChars \cup Whitespace)

\* re.sub(r'[^\w\s]', '', question.lower()).strip()
CleanQuestionKeepsCase(question) == Strip(RemoveNonWord(question))
CleanQuestion(question) == Strip(RemoveNonWord(Lower(question)))

\* user_input.lower() == 'skip'
IsSkipCaseSensitive(user_input) == user_input = <<"skip">>
IsSkip(user_input) == Lower(user_input) = <<"skip">>

----------------------------------------------------------------------------
(* re.search(r'(policz|oblicz)\s*([\d\+\-\*/\(\)\^\s]+)', user_input.lower()) *)

\* Length of the longest run of symbols of class C that starts at index i.
RECURSIVE RunLength(_, _, _)
RunLength(s, i, C) ==
    IF i > Len(s) \/ s[i] \notin C THEN 0 ELSE 1 + RunLength(s, i + 1, C)

\* The pattern matches at a cue word exactly when the symbol after it is in
\* the class (a space counts: \s* gives it back to the group).
MatchStarts(s) == {i \in 1..Len(s) : /\ s[i] \in CueWords
                                     /\ i < Len(s)
                                     /\ s[i + 1] \in MathChars}

\* group(2) of the leftmost match: \s* takes the spaces after the cue word,
\* the group the longest run of class symbols after them; when nothing is
\* left for the group, \s* hands back its last space.
Group2(s, i) ==
    LET spaces == RunLength(s, i + 1, Whitespace)
        from   == i + 1 + spaces
        run    == RunLength(s, from, MathChars)
    IN  IF run > 0 THEN SubSeq(s, from, from + run - 1)
        ELSE SubSeq(s, from - 1, from - 1)

\* None is << >>, a match is << group(2) >>.
MathMatch(user_input) ==
    LET s == Lower(user_input)
    IN  IF MatchStarts(s) = {} THEN << >>
        ELSE << Group2(s, MinOf(MatchStarts(s))) >>

----------------------------------------------------------------------------
(* MathProcessor: numbers are exact fractions [n, d] in lowest terms, d > 0 *)

RECURSIVE Gcd(_, _)
Gcd(a, b) == IF b = 0 THEN a ELSE Gcd(b, a % b)

Abs(x) == IF x < 0 THEN -x ELSE x

Rat(n, d) ==
    LET g == Gcd(Abs(n), Abs(d))
        sgn == IF d < 0 THEN -1 ELSE 1
    IN  [n |-> sgn * (n \div g), d |-> sgn * (d \div g)]

\* A float the fractions cannot represent (a non-integer power).
Inexact == [n |-> 0, d |-> 0]
\* The complex result of a negative base under a non-integer power.
Complex == [n |-> 0, d |-> -1]
\* The exception an operation raises (ZeroDivisionError).
Raised == [n |-> 1, d |-> 0]

IsExact(x) == x.d > 0

RECURSIVE IntPow(_, _)
IntPow(x, k) == IF k = 0 THEN Rat(1, 1)
                ELSE LET r == IntPow(x, k - 1) IN Rat(r.n * x.n, r.d * x.d)

\* x ** y of floats.
Power(x, y) ==
    IF y.d = 1
    THEN IF y.n >= 0 THEN IntPow(x, y.n)
         ELSE IF x.n = 0 THEN Raised
         ELSE LET r == IntPow(x, -y.n) IN Rat(r.d, r.n)
    ELSE IF x.n = 0 THEN (IF y.n > 0 THEN Rat(0, 1) ELSE Raised)
    ELSE IF x = Rat(1, 1) THEN Rat(1, 1)
    ELSE IF x.n < 0 THEN Complex
    ELSE Inexact

\* As Operate, with x / 0 giving an infinite float instead of raising.
OperateNoZeroCheck(operator, a, b) ==
    IF operator = "/" /\ IsExact(b) /\ b.n = 0 THEN Inexact
    ELSE IF a = Complex \/ b = Complex THEN Complex
    ELSE IF a = Inexact \/ b = Inexact THEN Inexact
    ELSE CASE operator = "+" -> Rat(a.n * b.d + b.n * a.d, a.d * b.d)
           [] operator = "-" -> Rat(a.n * b.d - b.n * a.d, a.d * b.d)
           [] operator = "*" -> Rat(a.n * b.n, a.d * b.d)
           [] operator = "/" -> Rat(a.n * b.d, a.d * b.n)
           [] operator = "^" -> Power(a, b)

\* self.operations[operator](a, b)
Operate(operator, a, b) ==
    IF operator = "/" /\ IsExact(b) /\ b.n = 0 THEN Raised
    ELSE IF a = Complex \/ b = Complex THEN Complex
    ELSE IF a = Inexact \/ b = Inexact THEN Inexact
    ELSE CASE operator = "+" -> Rat(a.n * b.d + b.n * a.d, a.d * b.d)
           [] operator = "-" -> Rat(a.n * b.d - b.n * a.d, a.d * b.d)
           [] operator = "*" -> Rat(a.n * b.n, a.d * b.d)
           [] operator = "/" -> Rat(a.n * b.d, a.d * b.n)
           [] operator = "^" -> Power(a, b)

\* The binary entries of self.operations ('sqrt' is never a token).
Operations == {"+", "-", "*", "/", "^"}

\* self.precedence.get(token, 0); a token is a sequence of symbols.
Precedence(token) ==
    IF Len(token) # 1 THEN 0
    ELSE CASE token[1] \in {"+", "-"} -> 1
           [] token[1] \in {"*", "/"} -> 2
           [] token[1] = "^" -> 3
           [] OTHER -> 0

NumberChars == Digits \cup {"."}

\* _tokenize: spaces removed, runs of digits and points are one token, each
\* operator symbol is a token, anything else is dropped.
RECURSIVE TokenizeFrom(_, _)
TokenizeFrom(e, i) ==
    IF i > Len(e) THEN << >>
    ELSE IF e[i] \in NumberChars
         THEN LET run == RunLength(e, i, NumberChars)
              IN  << SubSeq(e, i, i + run - 1) >> \o TokenizeFrom(e, i + run)
    ELSE IF e[i] \in OperatorSymbols
         THEN << << e[i] >> >> \o TokenizeFrom(e, i + 1)
    ELSE TokenizeFrom(e, i + 1)

Tokenize(expression) ==
    TokenizeFrom(SelectSeq(expression, LAMBDA c : c # " "), 1)

\* _is_number: float(token) succeeds.
IsNumber(token) ==
    /\ \A i \in 1..Len(token) : token[i] \in NumberChars
    /\ \E i \in 1..Len(token) : token[i] \in Digits
    /\ Cardinality({i \in 1..Len(token) : token[i] = "."}) <= 1

DigitValue(c) ==
    CASE c = "0" -> 0 [] c = "1" -> 1 [] c = "2" -> 2 [] c = "3" -> 3
      [] c = "4" -> 4 [] c = "5" -> 5 [] c = "6" -> 6 [] c = "7" -> 7
      [] c = "8" -> 8 [] c = "9" -> 9

RECURSIVE DigitsValue(_)
DigitsValue(ds) ==
    IF ds = << >> THEN 0
    ELSE 10 * DigitsValue(SubSeq(ds, 1, Len(ds) - 1)) + DigitValue(ds[Len(ds)])

RECURSIVE TenTo(_)
TenTo(k) == IF k = 0 THEN 1 ELSE 10 * TenTo(k - 1)

\* float(token) of a number token.
ParseNumber(token) ==
    LET dots == {i \in 1..Len(token) : token[i] = "."}
        frac == IF dots = {} THEN 0 ELSE Len(token) - MinOf(dots)
    IN  Rat(DigitsValue(SelectSeq(token, LAMBDA c : c \in Digits)), TenTo(frac))

\* The two stacks of _evaluate_tokens, and whether an exception was raised.
Stacks(values, operators) ==
    [values |-> values, operators |-> operators, raised |-> FALSE]
Failure == [values |-> << >>, operators |-> << >>, raised |-> TRUE]

Front(s) == SubSeq(s, 1, Len(s) - 1)
Top(s) == s[Len(s)]

\* _apply_operator: pop the operator; a known one pops b, then a, and pushes
\* the result, anything else (a parenthesis, a malformed number) is dropped.
ApplyOperator(st) ==
    LET operator == Top(st.operators)
        rest == Front(st.operators)
    IN  IF Len(operator) = 1 /\ operator[1] \in Operations
        THEN IF Len(st.values) < 2 THEN Failure
             ELSE LET b == Top(st.values)
                      a == Top(Front(st.values))
                      r == Operate(operator[1], a, b)
                  IN  IF r = Raised THEN Failure
                      ELSE Stacks(Append(Front(Front(st.values)), r), rest)
        ELSE Stacks(st.values, rest)

\* while operators and operators[-1] != '(': apply
RECURSIVE ApplyToParen(_)
ApplyToParen(st) ==
    IF st.raised \/ st.operators = << >> \/ Top(st.operators) = << "(" >>
    THEN st
    ELSE ApplyToParen(ApplyOperator(st))

\* As ApplyHigher, with > in place of >=.
RECURSIVE ApplyHigherStrict(_, _)
ApplyHigherStrict(st, token) ==
    IF \/ st.raised
       \/ st.operators = << >>
       \/ Top(st.operators) = << "(" >>
       \/ Precedence(Top(st.operators)) <= Precedence(token)
    THEN st
    ELSE ApplyHigherStrict(ApplyOperator(st), token)

\* while operators and operators[-1] != '(' and
\*       precedence(operators[-1]) >= precedence(token): apply
RECURSIVE ApplyHigher(_, _)
ApplyHigher(st, token) ==
    IF \/ st.raised
       \/ st.operators = << >>
       \/ Top(st.operators) = << "(" >>
       \/ Precedence(Top(st.operators)) < Precedence(token)
    THEN st
    ELSE ApplyHigher(ApplyOperator(st), token)

\* while operators: apply
RECURSIVE ApplyAll(_)
ApplyAll(st) ==
    IF st.raised \/ st.operators = << >> THEN st
    ELSE ApplyAll(ApplyOperator(st))

\* The body of the loop over the tokens.
EvalToken(st, token) ==
    IF st.raised THEN st
    ELSE IF IsNumber(token)
         THEN Stacks(Append(st.values, ParseNumber(token)), st.operators)
    ELSE IF token = << "(" >>
         THEN Stacks(st.values, Append(st.operators, token))
    ELSE IF token = << ")" >>
         THEN LET s1 == ApplyToParen(st)
              IN  IF s1.raised \/ s1.operators = << >> THEN Failure
                  ELSE Stacks(s1.values, Front(s1.operators))
    ELSE LET s1 == ApplyHigher(st, token)
         IN  IF s1.raised THEN s1
             ELSE Stacks(s1.values, Append(s1.operators, token))

RECURSIVE EvalLoop(_, _, _)
EvalLoop(st, tokens, i) ==
    IF i > Len(tokens) THEN st
    ELSE EvalLoop(EvalToken(st, tokens[i]), tokens, i + 1)

\* _evaluate_tokens: << values[0] >>, or << >> when an exception is raised.
EvaluateTokens(tokens) ==
    LET st == ApplyAll(EvalLoop(Stacks(<< >>, << >>), tokens, 1))
    IN  IF st.raised \/ st.values = << >> THEN << >> ELSE << st.values[1] >>

\* round(x, 4), ties to the even neighbour.
Round4(x) ==
    IF ~IsExact(x) THEN x
    ELSE LET q == (x.n * 10000) \div x.d
             r == x.n * 10000 - q * x.d
             up == \/ 2 * r > x.d
                   \/ 2 * r = x.d /\ q % 2 = 1
         IN  Rat(IF up THEN q + 1 ELSE q, 10000)

\* evaluate: << >> is None, << x >> the rounded result.  No tokens, any
\* exception and a complex result (float() of it raises) all give None.
Evaluate(expression) ==
    LET tokens == Tokenize(expression)
        result == IF tokens = << >> THEN << >> ELSE EvaluateTokens(tokens)
    IN  IF result = << >> \/ result[1] = Complex THEN << >>
        ELSE << Round4(result[1]) >>

----------------------------------------------------------------------------
(* DawidAI *)

\* ConversationState
NORMAL == "normal"
LEARNING == "learning"
CALCULATING == "calculating"
ConversationState == {NORMAL, LEARNING, CALCULATING}

\* The lines a user may type.
Inputs == {
    << >>,
    << "a" >>,
    << "A", "?" >>,
    << " ", "b", " " >>,
    << "?" >>,
    << "skip" >>,
    << " ", "SKIP" >>,
    << "policz" >>,
    << "policz", "+" >>,
    << "POLICZ", " ", "2", "+", "2" >>,
    << "oblicz", "2", "/", "0" >>
}

VARIABLES
    state,           \* self.state
    last_question,   \* self.last_question: << >> is None, << q >> a question
    knowledge_base,  \* self.knowledge_base, entries in insertion order
    history,         \* self.history
    data_file,       \* what the file self.data_file holds
    clock,           \* turns taken so far; datetime.now() reads it
    user_input,      \* the line handed to process_input in the last turn
    response,        \* what process_input returned in the last turn
    last_save,       \* how the last call of save_knowledge ended
    session,         \* whether the loop of start is running
    read,            \* how the last call of input() in start ended
    evaluation       \* a call of MathProcessor.evaluate on its own

vars == << state, last_question, knowledge_base, history, data_file, clock,
           user_input, response, last_save, session, read, evaluation >>

\* Interaction(question, answer, timestamp, learned)
Interaction(question, answer, timestamp, learned) ==
    [question |-> question, answer |-> answer, timestamp |-> timestamp,
     learned |-> learned]

\* The strings process_input returns: an answer carries its text, a
\* calculation result its expression and value; the phrases that
\* ESFJPersonality picks at random are told apart by their list only.
Reply(kind, text, value) == [kind |-> kind, text |-> text, value |-> value]
SkipReply == Reply("skip", << >>, << >>)
GratitudeReply == Reply("gratitude", << >>, << >>)
LearningRequestReply == Reply("learning_request", << >>, << >>)
ApologyReply == Reply("apology", << >>, << >>)
ResultReply(expression, value) == Reply("result", expression, << value >>)
AnswerReply(text) == Reply("answer", text, << >>)
NoReply == Reply("none", << >>, << >>)

\* The file: absent, a written snapshot, or the remains of a failed write.
NoFile == [status |-> "absent", knowledge_base |-> << >>, history |-> << >>]
BrokenFile == [status |-> "broken", knowledge_base |-> << >>, history |-> << >>]
Snapshot(kb, hist) == [status |-> "written", knowledge_base |-> kb, history |-> hist]

\* save_knowledge: the write succeeds, or it raises before the file is
\* opened (file as it was) or while writing (file truncated); the exception
\* is logged and swallowed.
SaveKnowledge(kb, hist) ==
    \/ /\ data_file' = Snapshot(kb, hist)
       /\ last_save' = "written"
    \/ /\ data_file' \in {data_file, BrokenFile}
       /\ last_save' = "failed"

\* No call of evaluate on its own is under way.
NoEvaluation == [expression |-> << >>, done |-> TRUE, result |-> << >>]

\* __init__ with no data file present: load_knowledge does nothing.
Init ==
    /\ state = NORMAL
    /\ last_question = << >>
    /\ knowledge_base = << >>
    /\ history = << >>
    /\ data_file = NoFile
    /\ last_save = "none"
    /\ session = "running"
    /\ read = "none"
    /\ evaluation = NoEvaluation
    /\ clock = 0
    /\ user_input = << >>
    /\ response = NoReply

Entry(question, answers) == [question |-> question, answers |-> answers]

\* Indices of the entries whose key is exactly k (k in self.knowledge_base).
KeyIndex(kb, k) == {i \in 1..Len(kb) : kb[i].question = k}

\* The answer list of _learn lines 224-228.
LearnedAnswersNoCheck(answers, answer) == Append(answers, answer)
LearnedAnswers(answers, answer) ==
    IF \E i \in 1..Len(answers) : answers[i] = answer THEN answers
    ELSE Append(answers, answer)

\* As LearnedKnowledge, with the answer list of a known question replaced
\* by the new answer.
LearnedKnowledgeReplaces(kb, question, answer) ==
    LET cleaned_question == CleanQuestion(question)
        at == KeyIndex(kb, cleaned_question)
    IN  IF at # {}
        THEN [kb EXCEPT ![MinOf(at)].answers = << answer >>]
        ELSE Append(kb, Entry(cleaned_question, << answer >>))

\* The knowledge base after _learn.
LearnedKnowledge(kb, question, answer) ==
    LET cleaned_question == CleanQuestion(question)
        at == KeyIndex(kb, cleaned_question)
    IN  IF at # {}
        THEN [kb EXCEPT ![MinOf(at)].answers = LearnedAnswers(@, answer)]
        ELSE Append(kb, Entry(cleaned_question, << answer >>))

\* _learn
Learn(question, answer) ==
    /\ history' = Append(history, Interaction(question, answer, clock, TRUE))
    /\ knowledge_base' = LearnedKnowledge(knowledge_base, question, answer)
    /\ SaveKnowledge(knowledge_base', history')

\* _get_response, the loop: the first entry, in insertion order, whose
\* normalised key equals the normalised question; 0 when there is none.
MatchingEntry(kb, question) ==
    LET hits == {i \in 1..Len(kb) :
                    CleanQuestion(kb[i].question) = CleanQuestion(question)}
    IN  IF hits = {} THEN 0 ELSE MinOf(hits)

\* if response: a non-empty string is true.
Truthy(text) == text # << >>

----------------------------------------------------------------------------
(* process_input, one action per path through it *)

Turn(raw) ==
    /\ clock < MaxTurns
    /\ clock' = clock + 1
    /\ user_input' = raw

\* Lines 190-193.
LearningSkip(raw) ==
    LET text == Strip(raw)
    IN  /\ Turn(raw)
        /\ state = LEARNING
        /\ IsSkip(text)
        /\ state' = NORMAL
        /\ response' = SkipReply
        /\ UNCHANGED << last_question, knowledge_base, history, data_file, last_save >>

\* As LearningAnswer, with the calculation check placed before the state
\* check.
LearningAnswerAfterMath(raw) ==
    LET text == Strip(raw)
        math_match == MathMatch(text)
    IN  /\ Turn(raw)
        /\ state = LEARNING
        /\ ~IsSkip(text)
        /\ IF math_match # << >>
           THEN /\ response' = IF Evaluate(math_match[1]) # << >>
                               THEN ResultReply(math_match[1],
                                                Evaluate(math_match[1])[1])
                               ELSE ApologyReply
                /\ UNCHANGED << state, last_question, knowledge_base,
                                history, data_file, last_save >>
           ELSE /\ Learn(last_question[1], text)
                /\ state' = NORMAL
                /\ response' = GratitudeReply
                /\ UNCHANGED last_question

\* As LearningAnswer, with a failed save_knowledge raising out of _learn:
\* the state is not reset and the turn ends with the exception.
LearningAnswerSaveRaises(raw) ==
    LET text == Strip(raw)
    IN  /\ Turn(raw)
        /\ state = LEARNING
        /\ ~IsSkip(text)
        /\ Learn(last_question[1], text)
        /\ state' = IF last_save' = "failed" THEN LEARNING ELSE NORMAL
        /\ response' = IF last_save' = "failed"
                       THEN Reply("error", << >>, << >>)
                       ELSE GratitudeReply
        /\ UNCHANGED last_question

\* Lines 195-197.
LearningAnswer(raw) ==
    LET text == Strip(raw)
    IN  /\ Turn(raw)
        /\ state = LEARNING
        /\ ~IsSkip(text)
        /\ Learn(last_question[1], text)
        /\ state' = NORMAL
        /\ response' = GratitudeReply
        /\ UNCHANGED last_question

\* As Calculation, with a failed evaluation falling through to lines
\* 211-213.
CalculationFallsThrough(raw) ==
    LET text == Strip(raw)
        math_match == MathMatch(text)
    IN  /\ Turn(raw)
        /\ state # LEARNING
        /\ math_match # << >>
        /\ IF Evaluate(math_match[1]) # << >>
           THEN /\ response' = ResultReply(math_match[1],
                                           Evaluate(math_match[1])[1])
                /\ UNCHANGED << state, last_question >>
           ELSE /\ state' = LEARNING
                /\ last_question' = << text >>
                /\ response' = LearningRequestReply
        /\ UNCHANGED << knowledge_base, history, data_file, last_save >>

\* As Calculation, with the state set to CALCULATING for the evaluation.
CalculationSetsState(raw) ==
    LET text == Strip(raw)
        math_match == MathMatch(text)
    IN  /\ Turn(raw)
        /\ state # LEARNING
        /\ math_match # << >>
        /\ state' = CALCULATING
        /\ response' = IF Evaluate(math_match[1]) # << >>
                       THEN ResultReply(math_match[1],
                                        Evaluate(math_match[1])[1])
                       ELSE ApologyReply
        /\ UNCHANGED << last_question, knowledge_base, history, data_file, last_save >>

\* Lines 199-205.
Calculation(raw) ==
    LET text == Strip(raw)
        math_match == MathMatch(text)
    IN  /\ Turn(raw)
        /\ state # LEARNING
        /\ math_match # << >>
        /\ LET expression == math_match[1]
               result == Evaluate(expression)
           IN  response' = IF result # << >>
                           THEN ResultReply(expression, result[1])
                           ELSE ApologyReply
        /\ UNCHANGED << state, last_question, knowledge_base, history,
                        data_file, last_save >>

\* As EnterLearning, with the pending question set only while it is None.
EnterLearningKeepsQuestion(text) ==
    /\ state' = LEARNING
    /\ last_question' = IF last_question = << >> THEN << text >>
                        ELSE last_question
    /\ response' = LearningRequestReply

\* Lines 211-213.
EnterLearning(text) ==
    /\ state' = LEARNING
    /\ last_question' = << text >>
    /\ response' = LearningRequestReply

\* As KnowledgeHit, with the answer recorded but not saved.
KnowledgeHitNoSave(raw) ==
    LET text == Strip(raw)
        at == MatchingEntry(knowledge_base, text)
    IN  /\ Turn(raw)
        /\ state # LEARNING
        /\ MathMatch(text) = << >>
        /\ at # 0
        /\ \E k \in 1..Len(knowledge_base[at].answers) :
              LET picked == knowledge_base[at].answers[k]
              IN  /\ history' = Append(history,
                                       Interaction(text, picked, clock, FALSE))
                  /\ IF Truthy(picked)
                     THEN /\ response' = AnswerReply(picked)
                          /\ UNCHANGED << state, last_question >>
                     ELSE EnterLearning(text)
        /\ UNCHANGED << knowledge_base, data_file, last_save >>

\* Lines 207-209 with _get_response finding the question: one of the stored
\* answers is picked, recorded and saved; it is returned if it is true,
\* and otherwise the turn goes on to lines 211-213.
KnowledgeHit(raw) ==
    LET text == Strip(raw)
        at == MatchingEntry(knowledge_base, text)
    IN  /\ Turn(raw)
        /\ state # LEARNING
        /\ MathMatch(text) = << >>
        /\ at # 0
        /\ \E k \in 1..Len(knowledge_base[at].answers) :
              LET picked == knowledge_base[at].answers[k]
              IN  /\ history' = Append(history,
                                       Interaction(text, picked, clock, FALSE))
                  /\ SaveKnowledge(knowledge_base, history')
                  /\ IF Truthy(picked)
                     THEN /\ response' = AnswerReply(picked)
                          /\ UNCHANGED << state, last_question >>
                     ELSE EnterLearning(text)
        /\ UNCHANGED knowledge_base

\* As KnowledgeMiss, with the unanswered question recorded in the history.
KnowledgeMissRecorded(raw) ==
    LET text == Strip(raw)
    IN  /\ Turn(raw)
        /\ state # LEARNING
        /\ MathMatch(text) = << >>
        /\ MatchingEntry(knowledge_base, text) = 0
        /\ state' = LEARNING
        /\ last_question' = << text >>
        /\ response' = LearningRequestReply
        /\ history' = Append(history, Interaction(text, << >>, clock, FALSE))
        /\ UNCHANGED << knowledge_base, data_file, last_save >>

\* Lines 207-213 with _get_response returning None.
KnowledgeMiss(raw) ==
    LET text == Strip(raw)
    IN  /\ Turn(raw)
        /\ state # LEARNING
        /\ MathMatch(text) = << >>
        /\ MatchingEntry(knowledge_base, text) = 0
        /\ EnterLearning(text)
        /\ UNCHANGED << knowledge_base, history, data_file, last_save >>

\* process_input called on its own, outside the loop of start.
CalledDirectly == UNCHANGED << session, read, evaluation >>

Next ==
    \/ \E raw \in Inputs : LearningSkip(raw) /\ CalledDirectly
    \/ \E raw \in Inputs : LearningAnswer(raw) /\ CalledDirectly
    \/ \E raw \in Inputs : Calculation(raw) /\ CalledDirectly
    \/ \E raw \in Inputs : KnowledgeHit(raw) /\ CalledDirectly
    \/ \E raw \in Inputs : KnowledgeMiss(raw) /\ CalledDirectly

Spec == Init /\ [][Next]_vars

----------------------------------------------------------------------------
(* MathProcessor.evaluate called on its own *)

\* Longest expression that is drawn symbol by symbol.
MaxExprLen == 5

\* The symbols expressions are drawn from.
ExprSymbols == {"0", "2", "+", "-", "*", "/", "^", "(", ")"}

\* Longer expressions, among them the examples of the documentation.
SampleExpressions == {
    << "2", " ", "+", " ", "2" >>,
    << "2", " ", "*", " ", "(", "3", " ", "+", " ", "4", ")" >>,
    << "2", " ", "+", " ", "3", " ", "*", " ", "4" >>,
    << "1", "0", " ", "/", " ", "0" >>,
    << "(", "2", "+", "3", ")", "*", "4" >>,
    << "2", "^", "3", "^", "2" >>,
    << "8", "-", "3", "-", "2" >>,
    << "8", "/", "4", "/", "2" >>,
    << "2", "*", "3", "^", "2" >>,
    << "2", "+", "(", "4", "/", "(", "2", "-", "2", ")", ")" >>,
    << "(", "8", "/", "(", "4", "-", "2", "*", "2", ")", ")", "+", "1" >>,
    << "2", "*", "(", "3", "+", "4" >>,
    << "(", "(", "2", "+", "3", ")", "*", "4" >>,
    << "2", "+", "3", ")", "*", "4" >>,
    << "1", "/", "3" >>,
    << "2", "^", "(", "0", "-", "2", ")" >>
}

\* Every sequence of at most MaxExprLen symbols whose numbers have one
\* digit, and the samples.
Expressions ==
    SampleExpressions \cup
    UNION {{e \in [1..n -> ExprSymbols] :
               \A i \in 1..(n - 1) : ~(e[i] \in Digits /\ e[i + 1] \in Digits)} :
           n \in 0..MaxExprLen}

InitEval ==
    /\ state = NORMAL
    /\ last_question = << >>
    /\ knowledge_base = << >>
    /\ history = << >>
    /\ data_file = NoFile
    /\ last_save = "none"
    /\ session = "running"
    /\ read = "none"
    /\ clock = 0
    /\ user_input = << >>
    /\ response = NoReply
    /\ \E e \in Expressions :
          evaluation = [expression |-> e, done |-> FALSE, result |-> << >>]

\* evaluate(expression)
EvaluateCall ==
    /\ ~evaluation.done
    /\ evaluation' = [evaluation EXCEPT !.done = TRUE,
                                        !.result = Evaluate(evaluation.expression)]
    /\ UNCHANGED << state, last_question, knowledge_base, history, data_file,
                    clock, user_input, response, last_save, session, read >>

NextEval == EvaluateCall

SpecEval == InitEval /\ [][NextEval]_vars

----------------------------------------------------------------------------
(* DawidAI.__init__ with a data file on disk, and the loop of DawidAI.start *)

\* A file that is valid JSON but not an object: data.get raises.
NotObjectFile ==
    [status |-> "not_object", knowledge_base |-> << >>, history |-> << >>]

\* An object with a good knowledge_base field and a history record that
\* Interaction(**i) rejects.
BadHistoryFile(kb) ==
    [status |-> "bad_history", knowledge_base |-> kb, history |-> << >>]

\* What the data file may hold when the program starts.
LoadableFiles == {
    NoFile,
    BrokenFile,
    NotObjectFile,
    Snapshot(<< >>, << >>),
    Snapshot(<< Entry(<< "a" >>, << << "b" >> >>) >>,
             << Interaction(<< "a" >>, << "b" >>, 0, TRUE) >>),
    Snapshot(<< Entry(<< "a" >>, << >>) >>, << >>),
    BadHistoryFile(<< Entry(<< "a" >>, << << "b" >> >>) >>)
}

\* load_knowledge: the fields of self it leaves behind.  json.load and
\* data.get raise before anything is assigned; a bad history record raises
\* after self.knowledge_base has been assigned.
Loaded(file) ==
    CASE file.status = "written" ->
            [knowledge_base |-> file.knowledge_base, history |-> file.history]
      [] file.status = "bad_history" ->
            [knowledge_base |-> file.knowledge_base, history |-> << >>]
      [] OTHER -> [knowledge_base |-> << >>, history |-> << >>]

\* __init__
InitSession ==
    /\ state = NORMAL
    /\ last_question = << >>
    /\ data_file \in LoadableFiles
    /\ knowledge_base = Loaded(data_file).knowledge_base
    /\ history = Loaded(data_file).history
    /\ last_save = "none"
    /\ session = "running"
    /\ read = "none"
    /\ evaluation = NoEvaluation
    /\ clock = 0
    /\ user_input = << >>
    /\ response = NoReply

\* The lines a user may type into the loop.
SessionLines == {
    << >>,
    << "a" >>,
    << "skip" >>,
    << "koniec" >>,
    << " ", "KONIEC" >>,
    << "oblicz", "2", "/", "0" >>
}

\* What start prints on leaving the loop and on a caught exception.
FarewellReply == Reply("farewell", << >>, << >>)
ErrorReply == Reply("error", << >>, << >>)

\* user_input.lower() == 'koniec'
IsKoniecCaseSensitive(line) == line = << "koniec" >>
IsKoniec(line) == Lower(line) = << "koniec" >>

\* Lines 257-263: a line was read, it is not the sentinel, process_input is
\* called with it.
InLoop(raw) ==
    /\ session = "running"
    /\ ~IsKoniec(Strip(raw))
    /\ read' = "line"
    /\ UNCHANGED << session, evaluation >>

\* Lines 259-261.
SessionEnd(raw) ==
    /\ session = "running"
    /\ IsKoniec(Strip(raw))
    /\ Turn(raw)
    /\ read' = "line"
    /\ session' = "ended"
    /\ response' = FarewellReply
    /\ UNCHANGED << state, last_question, knowledge_base, history, data_file,
                    last_save, evaluation >>

\* Lines 266-268: input() is interrupted.
Interrupted ==
    /\ session = "running"
    /\ clock < MaxTurns
    /\ clock' = clock + 1
    /\ read' = "KeyboardInterrupt"
    /\ session' = "ended"
    /\ response' = FarewellReply
    /\ UNCHANGED << state, last_question, knowledge_base, history, data_file,
                    last_save, evaluation, user_input >>

\* Lines 269-271 after input() raised (EOFError at the end of the input).
ReadFailsEndsSession ==
    /\ session = "running"
    /\ clock < MaxTurns
    /\ clock' = clock + 1
    /\ read' = "EOFError"
    /\ session' = "ended"
    /\ response' = ErrorReply
    /\ UNCHANGED << state, last_question, knowledge_base, history, data_file,
                    last_save, evaluation, user_input >>
ReadFails ==
    /\ session = "running"
    /\ clock < MaxTurns
    /\ clock' = clock + 1
    /\ read' = "EOFError"
    /\ response' = ErrorReply
    /\ UNCHANGED << state, last_question, knowledge_base, history, data_file,
                    last_save, evaluation, user_input, session >>

\* Lines 269-271 after process_input raised: _get_response found the
\* question with an empty answer list and random.choice raised IndexError
\* before anything was recorded.
ProcessingFails(raw) ==
    LET text == Strip(raw)
        at == MatchingEntry(knowledge_base, text)
    IN  /\ InLoop(raw)
        /\ Turn(raw)
        /\ state # LEARNING
        /\ MathMatch(text) = << >>
        /\ at # 0
        /\ knowledge_base[at].answers = << >>
        /\ response' = ErrorReply
        /\ UNCHANGED << state, last_question, knowledge_base, history,
                        data_file, last_save >>

NextSession ==
    \/ \E raw \in SessionLines : InLoop(raw) /\ LearningSkip(raw)
    \/ \E raw \in SessionLines : InLoop(raw) /\ LearningAnswer(raw)
    \/ \E raw \in SessionLines : InLoop(raw) /\ Calculation(raw)
    \/ \E raw \in SessionLines : InLoop(raw) /\ KnowledgeHit(raw)
    \/ \E raw \in SessionLines : InLoop(raw) /\ KnowledgeMiss(raw)
    \/ \E raw \in SessionLines : ProcessingFails(raw)
    \/ \E raw \in SessionLines : SessionEnd(raw)
    \/ Interrupted
    \/ ReadFails

SpecSession == InitSession /\ [][NextSession]_vars

----------------------------------------------------------------------------
(* The vocabulary of the properties, stated apart from the code's helpers *)

\* The symbols that are neither word characters nor whitespace.
Punctuation == {"?", ".", "+", "-", "*", "/", "^", "(", ")"}

\* The normalised form of a question: case folded, punctuation removed,
\* trimmed.
Normalized(text) ==
    Strip(SelectSeq(Lower(text), LAMBDA c : c \notin Punctuation))

\* The line is 'skip', compared case-insensitively after trimming.
SaysSkip(line) == Lower(Strip(line)) = << "skip" >>

\* The line is a calculation request.
AsksCalculation(line) == MathMatch(Strip(line)) # << >>

\* The answers stored for the question, as a set; empty when not stored.
StoredAnswers(kb, question) ==
    UNION {{kb[i].answers[k] : k \in 1..Len(kb[i].answers)} :
              i \in {j \in 1..Len(kb) : kb[j].question = Normalized(question)}}

\* The normalised form of the question is a stored question.
IsStored(kb, question) ==
    \E i \in 1..Len(kb) : kb[i].question = Normalized(question)

\* The answer lists stored for the question (one list, or none).
StoredLists(kb, question) ==
    {kb[i].answers : i \in {j \in 1..Len(kb) :
                               kb[j].question = Normalized(question)}}

\* The step appends exactly one record to the history.
AppendsOne == /\ Len(history') = Len(history) + 1
              /\ SubSeq(history', 1, Len(history)) = history

LastRecord(hist) == hist[Len(hist)]

\* The last turn taught an answer for a question never seen before.
JustTaughtFresh ==
    /\ state = NORMAL
    /\ response = GratitudeReply
    /\ history # << >>
    /\ LastRecord(history).learned
    /\ \A i \in 1..(Len(history) - 1) :
          Normalized(history[i].question)
              # Normalized(LastRecord(history).question)

----------------------------------------------------------------------------
(* A reference evaluator for infix expressions, by recursive descent:      *)
(*   sum     ::= product (('+' | '-') product)*                            *)
(*   product ::= power (('*' | '/') power)*                                *)
(*   power   ::= atom ('^' atom)*                                          *)
(*   atom    ::= number | '(' sum ')'                                      *)
(* with every repetition applied from left to right.                       *)

\* A parse: whether it succeeded, its value, the index of the next token,
\* and whether a division met a zero divisor or a power was undefined.
Parsed(value, next, divzero, undefined) ==
    [ok |-> TRUE, value |-> value, next |-> next, divzero |-> divzero,
     undefined |-> undefined]
NotParsed ==
    [ok |-> FALSE, value |-> Rat(1, 1), next |-> 0, divzero |-> FALSE,
     undefined |-> FALSE]

\* a op b in exact arithmetic; where it has no value the result is 1 and
\* the parse is flagged.
RefApply(op, a, b) ==
    LET divzero == op = "/" /\ b.value.n = 0 /\ IsExact(b.value)
        x == a.value
        y == b.value
        v == IF divzero THEN Rat(1, 1)
             ELSE IF ~IsExact(x) \/ ~IsExact(y) THEN Inexact
             ELSE CASE op = "+" -> Rat(x.n * y.d + y.n * x.d, x.d * y.d)
                    [] op = "-" -> Rat(x.n * y.d - y.n * x.d, x.d * y.d)
                    [] op = "*" -> Rat(x.n * y.n, x.d * y.d)
                    [] op = "/" -> Rat(x.n * y.d, x.d * y.n)
                    [] op = "^" -> Power(x, y)
    IN  Parsed(IF v = Raised THEN Rat(1, 1) ELSE v, b.next,
               a.divzero \/ b.divzero \/ divzero,
               a.undefined \/ b.undefined \/ v = Raised)

RECURSIVE RefSum(_, _), RefSumRest(_, _), RefProduct(_, _),
          RefProductRest(_, _), RefPower(_, _), RefPowerRest(_, _),
          RefAtom(_, _)

RefAtom(ts, i) ==
    IF i > Len(ts) THEN NotParsed
    ELSE IF IsNumber(ts[i])
         THEN Parsed(ParseNumber(ts[i]), i + 1, FALSE, FALSE)
    ELSE IF ts[i] = << "(" >>
         THEN LET r == RefSum(ts, i + 1)
              IN  IF r.ok /\ r.next <= Len(ts) /\ ts[r.next] = << ")" >>
                  THEN [r EXCEPT !.next = r.next + 1]
                  ELSE NotParsed
    ELSE NotParsed

RefPowerRest(ts, acc) ==
    IF acc.ok /\ acc.next <= Len(ts) /\ ts[acc.next] = << "^" >>
    THEN LET r == RefAtom(ts, acc.next + 1)
         IN  IF r.ok THEN RefPowerRest(ts, RefApply("^", acc, r))
             ELSE NotParsed
    ELSE acc

RefPower(ts, i) == RefPowerRest(ts, RefAtom(ts, i))

RefProductRest(ts, acc) ==
    IF acc.ok /\ acc.next <= Len(ts)
              /\ ts[acc.next] \in {<< "*" >>, << "/" >>}
    THEN LET r == RefPower(ts, acc.next + 1)
         IN  IF r.ok
             THEN RefProductRest(ts, RefApply(ts[acc.next][1], acc, r))
             ELSE NotParsed
    ELSE acc

RefProduct(ts, i) == RefProductRest(ts, RefPower(ts, i))

RefSumRest(ts, acc) ==
    IF acc.ok /\ acc.next <= Len(ts)
              /\ ts[acc.next] \in {<< "+" >>, << "-" >>}
    THEN LET r == RefProduct(ts, acc.next + 1)
         IN  IF r.ok
             THEN RefSumRest(ts, RefApply(ts[acc.next][1], acc, r))
             ELSE NotParsed
    ELSE acc

RefSum(ts, i) == RefSumRest(ts, RefProduct(ts, i))

\* The reference parse of the whole expression.
Reference(expression) ==
    LET ts == Tokenize(expression)
        r == RefSum(ts, 1)
    IN  IF r.ok /\ r.next = Len(ts) + 1 THEN r ELSE NotParsed

WellFormed(expression) == Reference(expression).ok

\* Opening minus closing parentheses among the first i symbols.
ParenDepth(e, i) ==
    Cardinality({j \in 1..i : e[j] = "("})
        - Cardinality({j \in 1..i : e[j] = ")"})

\* A ')' with no '(' before it to match.
UnmatchedClose(e) == \E i \in 1..Len(e) : ParenDepth(e, i) < 0

\* A '(' that is never closed.
UnclosedOpen(e) ==
    \E i \in 1..Len(e) :
        /\ e[i] = "("
        /\ \A j \in i..Len(e) : ParenDepth(e, j) >= ParenDepth(e, i)

----------------------------------------------------------------------------
(* Properties *)

\* C1: teaching round trip.  After a miss on a question q not stored before
\* and an answer a other than 'skip', every line q2 with the normalised form
\* of q returns a and leaves the state Normal.
C1_TeachingRoundTrip ==
    [][(/\ JustTaughtFresh
        /\ Normalized(user_input')
              = Normalized(LastRecord(history).question))
       => (/\ response' = AnswerReply(LastRecord(history).answer)
           /\ state' = NORMAL)]_vars

\* C2: in Learning, 'skip' (any case, trimmed) moves to Normal and leaves
\* the knowledge base and the history exactly as they were.
C2_SkipLeavesStore ==
    [][(state = LEARNING /\ SaysSkip(user_input'))
       => (/\ state' = NORMAL
           /\ knowledge_base' = knowledge_base
           /\ history' = history)]_vars

\* A skip typed with other case and padding has been taken in Learning.
C2_Witness ==
    /\ user_input = << " ", "SKIP" >>
    /\ response = SkipReply
    /\ state = NORMAL
    /\ last_question # << >>
    /\ ~IsStored(knowledge_base, last_question[1])

\* C3: no answer list ever holds the same answer twice, and teaching an
\* answer already stored for the normalised question leaves the list as it
\* was.
NoDuplicateAnswers ==
    \A i \in 1..Len(knowledge_base) :
        \A j, k \in 1..Len(knowledge_base[i].answers) :
            j # k => knowledge_base[i].answers[j] # knowledge_base[i].answers[k]

C3_IdempotentTeaching ==
    /\ []NoDuplicateAnswers
    /\ [][(/\ state = LEARNING
           /\ ~SaysSkip(user_input')
           /\ Strip(user_input')
                 \in StoredAnswers(knowledge_base, last_question[1]))
          => StoredLists(knowledge_base', last_question[1])
                = StoredLists(knowledge_base, last_question[1])]_vars

\* The same question and answer have been taught twice, and the answer is
\* stored once.
C3_Witness ==
    \E i, j \in 1..Len(history) :
        /\ i < j
        /\ history[i].learned /\ history[j].learned
        /\ Normalized(history[i].question) = Normalized(history[j].question)
        /\ history[i].answer = history[j].answer
        /\ \E e \in 1..Len(knowledge_base) :
              /\ knowledge_base[e].question = Normalized(history[i].question)
              /\ Cardinality({k \in 1..Len(knowledge_base[e].answers) :
                    knowledge_base[e].answers[k] = history[i].answer}) = 1

\* C4: in Normal, a line that is no calculation request and whose
\* normalised form is stored returns one of the stored answers, appends one
\* record with learned = false, and the state stays Normal.
C4_KnownQuestionAnswered ==
    [][(/\ state = NORMAL
        /\ ~AsksCalculation(user_input')
        /\ IsStored(knowledge_base, Strip(user_input')))
       => (/\ response'.kind = "answer"
           /\ response'.text
                 \in StoredAnswers(knowledge_base, Strip(user_input'))
           /\ AppendsOne
           /\ ~LastRecord(history').learned
           /\ state' = NORMAL)]_vars

\* C5: in Normal, a line that is no calculation request and whose
\* normalised form is not stored sets the state to Learning and the pending
\* question to the trimmed line; knowledge base and history are unchanged.
C5_UnknownQuestionPending ==
    [][(/\ state = NORMAL
        /\ ~AsksCalculation(user_input')
        /\ ~IsStored(knowledge_base, Strip(user_input')))
       => (/\ state' = LEARNING
           /\ last_question' = << Strip(user_input') >>
           /\ knowledge_base' = knowledge_base
           /\ history' = history)]_vars

\* A padded line missed a non-empty knowledge base.
C5_Witness ==
    /\ state = LEARNING
    /\ user_input = << " ", "b", " " >>
    /\ last_question = << << "b" >> >>
    /\ knowledge_base # << >>
    /\ ~IsStored(knowledge_base, << "b" >>)

\* C6: in Learning, every line other than 'skip' is the answer to the
\* pending question: it is stored under the normalised pending question,
\* one record with learned = true carrying question and answer is appended,
\* and the state is Normal.
C6_AnswerTaught ==
    [][(state = LEARNING /\ ~SaysSkip(user_input'))
       => (/\ Strip(user_input')
                 \in StoredAnswers(knowledge_base', last_question[1])
           /\ AppendsOne
           /\ LastRecord(history').learned
           /\ LastRecord(history').question = last_question[1]
           /\ LastRecord(history').answer = Strip(user_input')
           /\ state' = NORMAL)]_vars

\* An answer was taught for a question typed with capitals and punctuation.
C6_Witness ==
    /\ state = NORMAL
    /\ response = GratitudeReply
    /\ history # << >>
    /\ LastRecord(history).learned
    /\ LastRecord(history).question = << "A", "?" >>
    /\ LastRecord(history).answer = Strip(user_input)
    /\ LastRecord(history).answer
          \in StoredAnswers(knowledge_base, << "a" >>)

\* C7: a calculation request in Normal changes the output only; with a
\* value or without one, state, pending question, knowledge base, history
\* and file stay as they were.
C7_CalculationChangesNothing ==
    [][(state = NORMAL /\ AsksCalculation(user_input'))
       => (/\ response'.kind \in {"result", "apology"}
           /\ state' = NORMAL
           /\ last_question' = last_question
           /\ knowledge_base' = knowledge_base
           /\ history' = history
           /\ data_file' = data_file)]_vars

\* A calculation without a result was answered over a non-empty knowledge
\* base.
C7_Witness ==
    /\ AsksCalculation(user_input)
    /\ response = ApologyReply
    /\ state = NORMAL
    /\ knowledge_base # << >>

\* C8 as stated: a calculation request is routed to the evaluator whatever
\* the state.
C8_CalculationInAnyState ==
    [][AsksCalculation(user_input')
       => response'.kind \in {"result", "apology"}]_vars

\* C8 amended: a calculation request is routed to the evaluator in Normal;
\* in Learning it is taken as the answer to the pending question.
C8_CalculationInNormalOnly ==
    [][AsksCalculation(user_input')
       => IF state = NORMAL
          THEN response'.kind \in {"result", "apology"}
          ELSE /\ response' = GratitudeReply
               /\ history' # << >>
               /\ LastRecord(history').learned
               /\ LastRecord(history').answer = Strip(user_input')
               /\ history' # history]_vars

\* A calculation request has been stored as an answer.
C8_Witness ==
    /\ response = GratitudeReply
    /\ AsksCalculation(user_input)
    /\ history # << >>
    /\ LastRecord(history).learned
    /\ LastRecord(history).answer = Strip(user_input)

\* C9: the state is Normal initially and Normal or Learning ever after;
\* Calculating is never reached.
C9_NeverCalculating ==
    /\ state \in {NORMAL, LEARNING}
    /\ clock = 0 => state = NORMAL

\* A calculation has returned a value after the engine had been Learning.
C9_Witness ==
    /\ response.kind = "result"
    /\ state = NORMAL
    /\ last_question # << >>

C11_UnmatchedParenthesesFail ==
    (/\ evaluation.done
     /\ \/ UnmatchedClose(evaluation.expression)
        \/ UnclosedOpen(evaluation.expression))
    => evaluation.result = << >>

\* C12: an expression in which a division meets a zero divisor, at any
\* depth, has no result.
C12_DivisionByZeroFails ==
    (/\ evaluation.done
     /\ WellFormed(evaluation.expression)
     /\ Reference(evaluation.expression).divzero)
    => evaluation.result = << >>

\* A division by zero two parentheses deep has been evaluated.
C12_Witness ==
    /\ evaluation.done
    /\ evaluation.expression
          = << "2", "+", "(", "4", "/", "(", "2", "-", "2", ")", ")" >>
    /\ Reference(evaluation.expression).divzero
    /\ evaluation.result = << >>

\* C13: on a well-formed expression without a zero divisor the two stacks
\* give the value of the reference evaluator: '^' before '*' and '/' before
\* '+' and '-', parentheses first, equal precedence from left to right.
C13_MatchesReference ==
    (/\ evaluation.done
     /\ WellFormed(evaluation.expression)
     /\ ~Reference(evaluation.expression).divzero
     /\ ~Reference(evaluation.expression).undefined)
    => evaluation.result
          = << Round4(Reference(evaluation.expression).value) >>

\* 2 * (3 + 4) has been evaluated to 14.
C13_Witness ==
    /\ evaluation.done
    /\ evaluation.expression
          = << "2", " ", "*", " ", "(", "3", " ", "+", " ", "4", ")" >>
    /\ WellFormed(evaluation.expression)
    /\ evaluation.result = << Rat(14, 1) >>

\* The line is 'koniec', compared case-insensitively after trimming.
SaysKoniec(line) == Lower(Strip(line)) = << "koniec" >>

\* C14: in the loop, 'koniec' (any case, trimmed) ends the session in
\* either state with a farewell; process_input is not called, so state,
\* pending question, knowledge base, history and file are unchanged.
C14_KoniecEndsSession ==
    [][(session = "running" /\ read' = "line" /\ SaysKoniec(user_input'))
       => (/\ session' = "ended"
           /\ response' = FarewellReply
           /\ state' = state
           /\ last_question' = last_question
           /\ knowledge_base' = knowledge_base
           /\ history' = history
           /\ data_file' = data_file)]_vars

\* The session was ended in Learning by a padded, capital 'koniec' that was
\* not stored as the answer.
C14_Witness ==
    /\ session = "ended"
    /\ read = "line"
    /\ user_input = << " ", "KONIEC" >>
    /\ state = LEARNING
    /\ last_question # << >>
    /\ ~IsStored(knowledge_base, last_question[1])

\* The line is a known question whose answer list is empty, for which
\* process_input raises.
RaisesInTurn(line) ==
    /\ state = NORMAL
    /\ ~SaysKoniec(line)
    /\ ~AsksCalculation(line)
    /\ StoredLists(knowledge_base, Strip(line)) = {<< >>}

\* C15: the loop ends only on 'koniec' or on an interrupt; a failure while
\* reading or processing a turn gets the apology and the loop goes on.
C15_OnlyKoniecOrInterruptEnds ==
    [][/\ (session = "running" /\ session' = "ended")
             => \/ read' = "KeyboardInterrupt"
                \/ read' = "line" /\ SaysKoniec(user_input')
       /\ (/\ session = "running"
           /\ \/ read' = "EOFError"
              \/ read' = "line" /\ RaisesInTurn(user_input'))
             => (response' = ErrorReply /\ session' = "running")]_vars

\* A turn has failed in process_input and the loop is still running.
C15_Witness ==
    /\ session = "running"
    /\ read = "line"
    /\ response = ErrorReply
    /\ StoredLists(knowledge_base, Strip(user_input)) = {<< >>}

\* C17 as stated: after a failed load, of whatever kind, the engine starts
\* in Normal with an empty knowledge base and an empty history.
C17_FailedLoadStartsEmpty ==
    (/\ clock = 0
     /\ data_file.status \in {"broken", "not_object", "bad_history"})
    => (/\ knowledge_base = << >>
        /\ history = << >>
        /\ state = NORMAL)

\* The step is a teach turn: a line other than 'skip' in Learning.
TeachTurn == state = LEARNING /\ ~SaysSkip(user_input')

\* The step is a turn answered from the knowledge base: in Normal, no
\* calculation request, the normalised line stored.
LookupTurn ==
    /\ state = NORMAL
    /\ ~AsksCalculation(user_input')
    /\ IsStored(knowledge_base, Strip(user_input'))

\* The knowledge base with the answer taught for the question: appended to
\* the list of the normalised question unless already in it, or stored as a
\* new last entry.
Taught(kb, question, answer) ==
    IF IsStored(kb, question)
    THEN [i \in 1..Len(kb) |->
            IF kb[i].question = Normalized(question)
               /\ answer \notin StoredAnswers(kb, question)
            THEN [question |-> kb[i].question,
                  answers |-> Append(kb[i].answers, answer)]
            ELSE kb[i]]
    ELSE Append(kb, [question |-> Normalized(question),
                     answers |-> << answer >>])

\* C16: a teach turn and a turn answered from the knowledge base end the
\* same way whether the write succeeds or fails: reply, next state,
\* knowledge base and history are fixed by the state before, the line and
\* the answer picked, and only the file differs.
C16_SaveFailureKeepsTurn ==
    [][/\ TeachTurn
          => /\ state' = NORMAL
             /\ response' = GratitudeReply
             /\ history' = Append(history,
                   Interaction(last_question[1], Strip(user_input'),
                               clock, TRUE))
             /\ knowledge_base'
                   = Taught(knowledge_base, last_question[1],
                            Strip(user_input'))
       /\ LookupTurn
          => /\ knowledge_base' = knowledge_base
             /\ AppendsOne
             /\ LastRecord(history').answer
                   \in StoredAnswers(knowledge_base, Strip(user_input'))
             /\ history' = Append(history,
                   Interaction(Strip(user_input'),
                               LastRecord(history').answer, clock, FALSE))
             /\ IF LastRecord(history').answer # << >>
                THEN /\ response' = AnswerReply(LastRecord(history').answer)
                     /\ state' = NORMAL
                ELSE /\ response' = LearningRequestReply
                     /\ state' = LEARNING]_vars

\* An answer was taught and acknowledged although the write failed.
C16_Witness ==
    /\ last_save = "failed"
    /\ data_file # Snapshot(knowledge_base, history)
    /\ state = NORMAL
    /\ response = GratitudeReply
    /\ history # << >>
    /\ LastRecord(history).learned
    /\ LastRecord(history).answer
          \in StoredAnswers(knowledge_base, LastRecord(history).question)

\* C18 as stated: the history is append-only, and a turn appends a record
\* exactly when it returns a stored answer (learned = false) or teaches an
\* answer (learned = true).
C18_HistoryGrowsWithResults ==
    [][/\ Len(history') >= Len(history)
       /\ SubSeq(history', 1, Len(history)) = history
       /\ (history' # history) <=> (response'.kind = "answer" \/ TeachTurn)
       /\ response'.kind = "answer"
             => (AppendsOne /\ ~LastRecord(history').learned)
       /\ TeachTurn => (AppendsOne /\ LastRecord(history').learned)]_vars

\* C19: whenever the last write attempt succeeded, the file holds the
\* knowledge base and the history as they are in memory; a turn that
\* changes either of them ends with a write attempt.
C19_FileFollowsMemory ==
    /\ [](last_save = "written"
            => data_file = Snapshot(knowledge_base, history))
    /\ [][(knowledge_base' # knowledge_base \/ history' # history)
          => /\ last_save' \in {"written", "failed"}
             /\ \/ last_save' = "failed"
                \/ data_file' = Snapshot(knowledge_base', history')]_vars

\* The last write succeeded, after two recorded turns, and the file holds
\* both records.
C19_Witness ==
    /\ last_save = "written"
    /\ Len(history) >= 2
    /\ knowledge_base # << >>
    /\ data_file = Snapshot(knowledge_base, history)

\* The answers of entry i of the new knowledge base are those of the old
\* one, with at most one more at the end.
SameOrOneMore(old, new, i) ==
    /\ new[i].question = old[i].question
    /\ \/ new[i].answers = old[i].answers
       \/ /\ Len(new[i].answers) = Len(old[i].answers) + 1
          /\ SubSeq(new[i].answers, 1, Len(old[i].answers)) = old[i].answers

\* The new knowledge base is the old one with at most one answer added, at
\* the end of a list or as a new last entry with one answer.
GrownByOne(old, new) ==
    /\ Len(new) \in {Len(old), Len(old) + 1}
    /\ \A i \in 1..Len(old) : SameOrOneMore(old, new, i)
    /\ Cardinality({i \in 1..Len(old) : new[i].answers # old[i].answers})
          + (Len(new) - Len(old)) <= 1
    /\ Len(new) = Len(old) + 1 => Len(new[Len(new)].answers) = 1

\* C20: only a teach turn changes the knowledge base, and it adds at most
\* one answer; nothing is removed or reordered; every key is in normalised
\* form and has at least one answer.
C20_KnowledgeOnlyGrows ==
    /\ [](\A i \in 1..Len(knowledge_base) :
             /\ Normalized(knowledge_base[i].question)
                   = knowledge_base[i].question
             /\ knowledge_base[i].answers # << >>)
    /\ [][IF TeachTurn THEN GrownByOne(knowledge_base, knowledge_base')
          ELSE knowledge_base' = knowledge_base]_vars

\* A second answer has been appended to the list of a known question.
C20_Witness ==
    \E i \in 1..Len(knowledge_base) :
        /\ Len(knowledge_base[i].answers) = 2
        /\ Normalized(knowledge_base[i].question) = knowledge_base[i].question

====
